---- MODULE Spec2Model ----
(***************************************************************************)
(* A model of the ads.txt parser and generator (perry-mitchell/ads.txt).   *)
(* Strings are sequences of one-character strings, so that splitting,      *)
(* trimming, pattern matching and percent-decoding are computed character  *)
(* by character, as the JavaScript does.                                   *)
(***************************************************************************)
EXTENDS Naturals, Sequences, FiniteSets, TLC

VARIABLES
    pc,                 \* "idle"; parseAdsTxt: "parsing", "returned", "threw";
                        \* generateAdsTxt: "generated", "failed"
    text,               \* parseAdsTxt: the text argument
    parseOptions,       \* parseAdsTxt: the option as the caller gave it
    invalidLineAction,  \* parseAdsTxt: the option after Object.assign
    lines,              \* parseAdsTxt: text.split(NEW_LINE)
    idx,                \* number of lines the forEach has fully processed
    variables,          \* parseAdsTxt: the variables object (insertion order)
    dataFields,         \* parseAdsTxt: the dataFields array
    error,              \* the exception that left the call, if any
    manifest,           \* generateAdsTxt: the manifest argument
    header,             \* generateAdsTxt: the header argument
    footer,             \* generateAdsTxt: the footer argument
    genLines,           \* generateAdsTxt: the lines array before the join
    output,             \* generateAdsTxt: the returned text
    srcLines,           \* the lines a text was assembled from
    seps                \* the separators placed between them

vars == <<pc, text, parseOptions, invalidLineAction, lines, idx, variables, dataFields, error,
          manifest, header, footer, genLines, output, srcLines, seps>>

----------------------------------------------------------------------------
(* Bounds of the model *)

\* Longest text, in lines, handed to parseAdsTxt.
MaxLines == 3

\* Longest text, in lines, of the line-separator runs.
MaxSepLines == 3

\* Most records in a manifest handed to generateAdsTxt.
MaxFields == 2

\* Most variables in a manifest handed to generateAdsTxt.
MaxVars == 2

----------------------------------------------------------------------------
(* Characters *)

LOWER == <<"a","b","c","d","e","f","g","h","i","j","k","l","m",
           "n","o","p","q","r","s","t","u","v","w","x","y","z">>

UPPER == <<"A","B","C","D","E","F","G","H","I","J","K","L","M",
           "N","O","P","Q","R","S","T","U","V","W","X","Y","Z">>

DIGITS == <<"0","1","2","3","4","5","6","7","8","9">>

\* The printable ASCII characters, from 0x20 to 0x7E, in code order.
PRINTABLE == <<" ","!","\"","#","$","%","&","'","(",")","*","+",",","-",".","/">>
             \o DIGITS \o <<":",";","<","=",">","?","@">>
             \o UPPER \o <<"[","\\","]","^","_","<96>">>
             \o LOWER \o <<"{","|","}","~">>

IsIn(c, s) == \E i \in 1..Len(s) : s[i] = c

IndexOf(c, s) == CHOOSE i \in 1..Len(s) : s[i] = c

IsLetter(c) == IsIn(c, LOWER) \/ IsIn(c, UPPER)

IsAlnum(c) == IsLetter(c) \/ IsIn(c, DIGITS)

\* What the regular expression class \s and String.prototype.trim strip.
IsWhitespace(c) == c \in {" ", "\t", "\n", "\r", "\f"}

\* What the regular expression class . does not match.
IsLineTerminator(c) == c \in {"\n", "\r"}

UpperChar(c) == IF IsIn(c, LOWER) THEN UPPER[IndexOf(c, LOWER)] ELSE c

toUpperCase(s) == [i \in 1..Len(s) |-> UpperChar(s[i])]

----------------------------------------------------------------------------
(* String operations *)

Min(S) == CHOOSE x \in S : \A y \in S : x <= y

Max(S) == CHOOSE x \in S : \A y \in S : x >= y

\* String.prototype.trim
trim(s) ==
    LET keep == {i \in 1..Len(s) : ~IsWhitespace(s[i])}
    IN  IF keep = {} THEN <<>> ELSE SubSeq(s, Min(keep), Max(keep))

\* String.prototype.split with a one-character separator.
RECURSIVE split(_, _)
split(s, sep) ==
    LET hits == {i \in 1..Len(s) : s[i] = sep}
    IN  IF hits = {} THEN <<s>>
        ELSE LET i == Min(hits)
             IN  <<SubSeq(s, 1, i - 1)>> \o split(SubSeq(s, i + 1, Len(s)), sep)

\* The characters of a sequence run together as one string.
RECURSIVE StrCat(_)
StrCat(s) == IF Len(s) = 0 THEN "" ELSE s[1] \o StrCat(Tail(s))

\* Array.prototype.join
RECURSIVE join(_, _)
join(parts, sep) ==
    IF Len(parts) = 0 THEN <<>>
    ELSE IF Len(parts) = 1 THEN parts[1]
    ELSE parts[1] \o sep \o join(Tail(parts), sep)

\* text.split(NEW_LINE) with NEW_LINE = /\r\n|\n|\r/ : the leftmost match, and
\* at a carriage return the two-character alternative first.
RECURSIVE splitNewLineRegex(_)
splitNewLineRegex(s) ==
    LET hits == {i \in 1..Len(s) : IsLineTerminator(s[i])}
    IN  IF hits = {} THEN <<s>>
        ELSE LET i == Min(hits)
                 w == IF s[i] = "\r" /\ i < Len(s) /\ s[i + 1] = "\n" THEN 2 ELSE 1
             IN  <<SubSeq(s, 1, i - 1)>>
                 \o splitNewLineRegex(SubSeq(s, i + w, Len(s)))

\* A split that knows the line feed only, as String.prototype.split("\n") does.
splitLineFeedOnly(s) == split(s, "\n")

NEW_LINE(s) == splitNewLineRegex(s)

----------------------------------------------------------------------------
(* decodeURIComponent *)

HEXDIGITS == <<"0","1","2","3","4","5","6","7","8","9","A","B","C","D","E","F">>

IsHex(c) == IsIn(UpperChar(c), HEXDIGITS)

HexVal(c) == IndexOf(UpperChar(c), HEXDIGITS) - 1

\* Whether s starts with a well-formed escape %XX.
IsEscapeAt(s) == Len(s) >= 3 /\ s[1] = "%" /\ IsHex(s[2]) /\ IsHex(s[3])

ByteAt(s) == 16 * HexVal(s[2]) + HexVal(s[3])

\* The character of a 7-bit code.
AsciiChar(b) ==
    IF b >= 32 /\ b <= 126 THEN PRINTABLE[b - 31]
    ELSE IF b = 9 THEN "\t"
    ELSE IF b = 10 THEN "\n"
    ELSE IF b = 12 THEN "\f"
    ELSE IF b = 13 THEN "\r"
    ELSE "<" \o ToString(b) \o ">"

\* How many continuation bytes a UTF-8 lead byte announces; 9 for a byte that
\* cannot lead.
Continuations(b) ==
    IF b >= 194 /\ b <= 223 THEN 1
    ELSE IF b >= 224 /\ b <= 239 THEN 2
    ELSE IF b >= 240 /\ b <= 244 THEN 3
    ELSE 9

\* Whether s starts with n escapes of continuation bytes (0x80..0xBF).
RECURSIVE HasContinuations(_, _)
HasContinuations(s, n) ==
    IF n = 0 THEN TRUE
    ELSE /\ IsEscapeAt(s)
         /\ ByteAt(s) >= 128 /\ ByteAt(s) <= 191
         /\ HasContinuations(SubSeq(s, 4, Len(s)), n - 1)

\* decodeURIComponent: ok = FALSE stands for the URIError it throws on a
\* malformed escape sequence.
RECURSIVE decodeURIComponent(_)
decodeURIComponent(s) ==
    IF Len(s) = 0 THEN [ok |-> TRUE, s |-> <<>>]
    ELSE IF s[1] # "%" THEN
        LET rest == decodeURIComponent(Tail(s))
        IN  [ok |-> rest.ok, s |-> IF rest.ok THEN <<s[1]>> \o rest.s ELSE <<>>]
    ELSE IF ~IsEscapeAt(s) THEN [ok |-> FALSE, s |-> <<>>]
    ELSE IF ByteAt(s) < 128 THEN
        LET rest == decodeURIComponent(SubSeq(s, 4, Len(s)))
        IN  [ok |-> rest.ok,
             s |-> IF rest.ok THEN <<AsciiChar(ByteAt(s))>> \o rest.s ELSE <<>>]
    ELSE
        LET n == Continuations(ByteAt(s))
        IN  IF n = 9 \/ ~HasContinuations(SubSeq(s, 4, Len(s)), n)
            THEN [ok |-> FALSE, s |-> <<>>]
            ELSE LET w == 3 * (n + 1)
                     rest == decodeURIComponent(SubSeq(s, w + 1, Len(s)))
                 IN  [ok |-> rest.ok,
                      s |-> IF rest.ok
                            THEN <<"<" \o StrCat(SubSeq(s, 1, w)) \o ">">> \o rest.s
                            ELSE <<>>]

----------------------------------------------------------------------------
(* Values *)

\* A property that holds a string, and one that is undefined or missing.
Some(s) == [has |-> TRUE, s |-> s]

None == [has |-> FALSE, s |-> <<>>]

NoError == [kind |-> "none", line |-> <<>>]

Thrown(kind, line) == [kind |-> kind, line |-> line]

LF == <<"\n">>

CRLF == <<"\r", "\n">>

CR == <<"\r">>

DIRECT == <<"D","I","R","E","C","T">>

RESELLER == <<"R","E","S","E","L","L","E","R">>

\* objectValues(AccountType)
AccountType == <<DIRECT, RESELLER>>

DEFAULT_OPTIONS == [invalidLineAction |-> "filter"]

----------------------------------------------------------------------------
(* Line classification *)

\* /^\s*#/.test(line)
isComment(line) ==
    \E i \in 1..Len(line) :
        line[i] = "#" /\ \A j \in 1..(i - 1) : IsWhitespace(line[j])

\* /^\s*$/.test(line)
EMPTY_LINE(line) == \A i \in 1..Len(line) : IsWhitespace(line[i])

\* line.match(/^([a-zA-Z]+)=(.+)$/): the name ends at the first "=", since no
\* letter is one; the value is what follows, and . matches no line terminator.
VARIABLE_DEFINITION(line) ==
    LET eqs == {i \in 1..Len(line) : line[i] = "="}
        i == IF eqs = {} THEN 0 ELSE Min(eqs)
        ok == /\ i > 1
              /\ \A j \in 1..(i - 1) : IsLetter(line[j])
              /\ i < Len(line)
              /\ \A j \in (i + 1)..Len(line) : ~IsLineTerminator(line[j])
    IN  [matched |-> ok,
         name |-> IF ok THEN SubSeq(line, 1, i - 1) ELSE <<>>,
         value |-> IF ok THEN SubSeq(line, i + 1, Len(line)) ELSE <<>>]

isVariableAssignment(line) == VARIABLE_DEFINITION(line).matched

\* A comment cut at its second "#".
stripCommentFirstPart(line) ==
    LET parts == split(line, "#")
    IN  [main |-> parts[1],
         comment |-> IF Len(parts) > 1 THEN trim(parts[2]) ELSE <<>>]

\* const [main, ...commentParts] = line.split("#")
stripComment(line) ==
    LET parts == split(line, "#")
    IN  [main |-> parts[1], comment |-> trim(join(Tail(parts), <<"#">>))]

\* A label of a host name: letters, digits and inner hyphens.
IsLabel(l) ==
    /\ Len(l) >= 1
    /\ \A i \in 1..Len(l) : IsAlnum(l[i]) \/ l[i] = "-"
    /\ l[1] # "-" /\ l[Len(l)] # "-"

\* The is-domain-name package: dot-separated labels, the last of two
\* characters or more.
isDomainName(domain) ==
    LET labels == split(domain, ".")
    IN  /\ Len(domain) >= 2
        /\ \A i \in 1..Len(labels) : IsLabel(labels[i])
        /\ Len(labels[Len(labels)]) >= 2

\* objectValues(AccountType).indexOf(type.toUpperCase()) >= 0, for a string
isValidAccountType(type) == IsIn(toUpperCase(type), AccountType)

\* commentStrippedLine.split(",").map(item => item.trim())
TrimmedItems(line) ==
    LET items == split(stripComment(line).main, ",")
    IN  [i \in 1..Len(items) |-> trim(items[i])]

\* With fewer than three items accountType is undefined, toUpperCase throws
\* a TypeError, and the catch returns false.
isDataField(line) ==
    LET items == TrimmedItems(line)
    IN  IF Len(items) < 3 THEN FALSE
        ELSE isDomainName(items[1]) /\ isValidAccountType(items[3])

----------------------------------------------------------------------------
(* Record parser *)

\* comment && comment.length > 0
CommentProperty(comment) == IF Len(comment) > 0 THEN Some(comment) ELSE None

\* A record whose items are trimmed and left as written.
createDataFieldUndecoded(line) ==
    LET items == TrimmedItems(line)
        at(i) == IF i <= Len(items) THEN Some(items[i]) ELSE None
    IN  [ok |-> TRUE,
         field |-> [domain |-> at(1),
                    publisherAccountID |-> at(2),
                    accountType |-> at(3),
                    certificateAuthorityID |-> at(4),
                    comment |-> CommentProperty(stripComment(line).comment)]]

\* createDataField: ok = FALSE when decodeURIComponent throws on an item.
createDataField(line) ==
    LET items == TrimmedItems(line)
        decoded == [i \in 1..Len(items) |-> decodeURIComponent(items[i])]
        at(i) == IF i <= Len(items) THEN Some(decoded[i].s) ELSE None
    IN  [ok |-> \A i \in 1..Len(items) : decoded[i].ok,
         field |-> [domain |-> at(1),
                    publisherAccountID |-> at(2),
                    accountType |-> at(3),
                    certificateAuthorityID |-> at(4),
                    comment |-> CommentProperty(stripComment(line).comment)]]

----------------------------------------------------------------------------
(* Variable accumulator *)

HasKey(vs, name) == \E i \in 1..Len(vs) : vs[i].key = name

KeyIndex(vs, name) == CHOOSE i \in 1..Len(vs) : vs[i].key = name

\* An accumulator that keeps the latest value only.
AccumulateOverwrite(vs, name, value) ==
    IF HasKey(vs, name)
    THEN [vs EXCEPT ![KeyIndex(vs, name)] =
             [key |-> name, kind |-> "string", vals |-> <<value>>]]
    ELSE Append(vs, [key |-> name, kind |-> "string", vals |-> <<value>>])

\* The three branches on typeof variables[variableName]: a string becomes a
\* two-element array, an array is pushed to, anything else is assigned.
Accumulate(vs, name, value) ==
    IF HasKey(vs, name) /\ vs[KeyIndex(vs, name)].kind = "string"
    THEN LET i == KeyIndex(vs, name)
         IN  [vs EXCEPT ![i] =
                 [key |-> name, kind |-> "array", vals |-> <<vs[i].vals[1], value>>]]
    ELSE IF HasKey(vs, name) /\ vs[KeyIndex(vs, name)].kind = "array"
    THEN LET i == KeyIndex(vs, name)
         IN  [vs EXCEPT ![i] =
                 [key |-> name, kind |-> "array", vals |-> Append(vs[i].vals, value)]]
    ELSE IF HasKey(vs, name)
    THEN [vs EXCEPT ![KeyIndex(vs, name)] =
             [key |-> name, kind |-> "string", vals |-> <<value>>]]
    ELSE Append(vs, [key |-> name, kind |-> "string", vals |-> <<value>>])

----------------------------------------------------------------------------
(* Manifest parser *)

\* The body of lines.forEach for one line, on the accumulated state st.
ForEachLine(st, line, action) ==
    IF isComment(line) \/ EMPTY_LINE(line) THEN st
    ELSE IF isVariableAssignment(line) THEN
        LET m == VARIABLE_DEFINITION(line)
            d == decodeURIComponent(m.value)
        IN  IF d.ok
            THEN [st EXCEPT !.variables = Accumulate(st.variables, m.name, d.s)]
            ELSE [st EXCEPT !.error = Thrown("URIError", line)]
    ELSE IF isDataField(line) THEN
        LET r == createDataField(line)
        IN  IF r.ok
            THEN [st EXCEPT !.fields = Append(st.fields, r.field)]
            ELSE [st EXCEPT !.error = Thrown("URIError", line)]
    ELSE IF action = "throw" THEN [st EXCEPT !.error = Thrown("ParseError", line)]
    ELSE st

\* Object.assign({}, DEFAULT_OPTIONS, parseOptions).invalidLineAction
OptionOf(opt) == IF opt = "omitted" THEN DEFAULT_OPTIONS.invalidLineAction ELSE opt

\* A check of the option that lets every value through.
ValidOptionUnchecked(action) == action = action

\* ["filter", "throw"].includes(invalidLineAction)
ValidOption(action) == action \in {"filter", "throw"}

RECURSIVE ForEach(_, _, _)
ForEach(st, ls, action) ==
    IF Len(ls) = 0 \/ st.error.kind # "none" THEN st
    ELSE ForEach(ForEachLine(st, ls[1], action), Tail(ls), action)

\* parseAdsTxt as a function of its arguments: the exception, or the manifest.
parseAdsTxt(t, opt) ==
    IF ~ValidOption(OptionOf(opt))
    THEN [variables |-> <<>>, fields |-> <<>>, error |-> Thrown("OptionError", <<>>)]
    ELSE ForEach([variables |-> <<>>, fields |-> <<>>, error |-> NoError],
                 NEW_LINE(t), OptionOf(opt))

----------------------------------------------------------------------------
(* Record generator *)

\* A line whose certificate authority ID is appended whenever the key is there.
FormatLineAnyCertificate(field) ==
    field.domain.s \o <<",", " ">> \o field.publisherAccountID.s
    \o <<",", " ">> \o field.accountType.s
    \o (IF field.certificateAuthorityID.has
        THEN <<",", " ">> \o field.certificateAuthorityID.s ELSE <<>>)
    \o (IF field.comment.has /\ Len(field.comment.s) > 0
        THEN <<" ", "#", " ">> \o field.comment.s ELSE <<>>)

\* The line of a record that passed the checks: the template, then the two
\* conditional appends.
FormatLine(field) ==
    field.domain.s \o <<",", " ">> \o field.publisherAccountID.s
    \o <<",", " ">> \o field.accountType.s
    \o (IF field.certificateAuthorityID.has /\ Len(field.certificateAuthorityID.s) > 0
        THEN <<",", " ">> \o field.certificateAuthorityID.s ELSE <<>>)
    \o (IF field.comment.has /\ Len(field.comment.s) > 0
        THEN <<" ", "#", " ">> \o field.comment.s ELSE <<>>)

\* generateLineForField: the three checks in their order, then the line. A
\* missing accountType makes type.toUpperCase() throw a TypeError. The
\* manifests of the model always carry a domain string.
generateLineForField(field) ==
    IF ~isDomainName(field.domain.s)
    THEN [ok |-> FALSE, line |-> <<>>, error |-> Thrown("InvalidDomain", field.domain.s)]
    ELSE IF ~field.publisherAccountID.has \/ Len(field.publisherAccountID.s) = 0
    THEN [ok |-> FALSE, line |-> <<>>, error |-> Thrown("MissingPublisherID", <<>>)]
    ELSE IF ~field.accountType.has
    THEN [ok |-> FALSE, line |-> <<>>, error |-> Thrown("TypeError", <<>>)]
    ELSE IF ~isValidAccountType(field.accountType.s)
    THEN [ok |-> FALSE, line |-> <<>>,
          error |-> Thrown("InvalidAccountType", field.accountType.s)]
    ELSE [ok |-> TRUE, error |-> NoError, line |-> FormatLine(field)]

\* generateLineForVariable: an array gives its lines joined by line feeds, a
\* string one line, anything else an error.
generateLineForVariable(entry) ==
    IF entry.kind = "array"
    THEN [ok |-> TRUE, error |-> NoError,
          line |-> join([i \in 1..Len(entry.vals) |->
                            entry.key \o <<"=">> \o entry.vals[i]], LF)]
    ELSE IF entry.kind = "string"
    THEN [ok |-> TRUE, error |-> NoError,
          line |-> entry.key \o <<"=">> \o entry.vals[1]]
    ELSE [ok |-> FALSE, line |-> <<>>, error |-> Thrown("InvalidVariableValue", <<>>)]

----------------------------------------------------------------------------
(* Manifest generator *)

\* Array.prototype.map over results that may throw: the lines, or the first
\* exception in array order.
RECURSIVE MapLines(_)
MapLines(results) ==
    IF Len(results) = 0 THEN [ok |-> TRUE, lines |-> <<>>, error |-> NoError]
    ELSE IF ~results[1].ok
    THEN [ok |-> FALSE, lines |-> <<>>, error |-> results[1].error]
    ELSE LET rest == MapLines(Tail(results))
         IN  IF rest.ok
             THEN [ok |-> TRUE, lines |-> <<results[1].line>> \o rest.lines,
                   error |-> NoError]
             ELSE rest

\* header.split("\n").map(line => `# ${line}`), when header && header.length > 0
CommentBlock(block) ==
    IF block.has /\ Len(block.s) > 0
    THEN LET ls == split(block.s, "\n")
         IN  [i \in 1..Len(ls) |-> <<"#", " ">> \o ls[i]]
    ELSE <<>>

\* generateAdsTxt: the record lines, then the variable lines, the header
\* unshifted, the footer pushed, all joined by line feeds.
generateAdsTxt(m, h, f) ==
    LET fs == MapLines([i \in 1..Len(m.fields) |-> generateLineForField(m.fields[i])])
        vs == MapLines([i \in 1..Len(m.variables) |->
                           generateLineForVariable(m.variables[i])])
        all == CommentBlock(h) \o fs.lines \o vs.lines \o CommentBlock(f)
    IN  IF ~fs.ok THEN [ok |-> FALSE, lines |-> <<>>, text |-> <<>>, error |-> fs.error]
        ELSE IF ~vs.ok
        THEN [ok |-> FALSE, lines |-> <<>>, text |-> <<>>, error |-> vs.error]
        ELSE [ok |-> TRUE, lines |-> all, text |-> join(all, LF), error |-> NoError]

----------------------------------------------------------------------------
(* Input texts *)

SeqsUpTo(S, n) == UNION {[1..k -> S] : k \in 0..n}

\* The lines joined by the separators given for each gap.
RECURSIVE Assemble(_, _)
Assemble(ls, ss) ==
    IF Len(ls) = 0 THEN <<>>
    ELSE IF Len(ls) = 1 THEN ls[1]
    ELSE ls[1] \o ss[1] \o Assemble(Tail(ls), Tail(ss))

\* " "
LineBlank == <<" ">>
\* " # A=1"
LineComment == <<" ","#"," ","A","=","1">>
\* "A=1"
LineVarA1 == <<"A","=","1">>
\* "A=%32", whose value decodes to "2"
LineVarA2 == <<"A","=","%","3","2">>
\* "b=a.co,1,DIRECT"
LineVarB == <<"b","=","a",".","c","o",",","1",",">> \o DIRECT
\* "A=%", a malformed escape in a variable value
LineVarBad == <<"A","=","%">>
\* "a.co,1,DIRECT"
LineRec1 == <<"a",".","c","o",",","1",",">> \o DIRECT
\* " b.io , p%20q,direct ,c4 # n #m"
LineRec2 == <<" ","b",".","i","o"," ",","," ","p","%","2","0","q",",",
              "d","i","r","e","c","t"," ",",","c","4"," ","#"," ","n"," ","#","m">>
\* "a.co,,Reseller#"
LineRec3 == <<"a",".","c","o",",",",","R","e","s","e","l","l","e","r","#">>
\* "a.co,1,DIRECT#%zz "
LineRec4 == LineRec1 \o <<"#","%","z","z"," ">>
\* "a.co,%,DIRECT", a malformed escape in a record
LineRecBad == <<"a",".","c","o",",","%",",">> \o DIRECT
\* "a.co,1"
LineShort == <<"a",".","c","o",",","1">>
\* "a.co,1,OWNER"
LineWrongType == <<"a",".","c","o",",","1",",","O","W","N","E","R">>

ParseLines == {LineBlank, LineComment, LineVarA1, LineVarA2, LineVarB, LineVarBad,
               LineRec1, LineRec2, LineRec3, LineRec4, LineRecBad, LineWrongType}

SepLines == {<<>>, LineVarA1, LineRec1, LineRec2, LineShort}

Separators == {LF, CRLF, CR}

OptionValues == {"omitted", "filter", "throw", "ignore"}

----------------------------------------------------------------------------
(* Input manifests *)

Field(d, p, t, c, k) ==
    [domain |-> d, publisherAccountID |-> p, accountType |-> t,
     certificateAuthorityID |-> c, comment |-> k]

DomainA == <<"a",".","c","o">>

DomainB == <<"b",".","i","o">>

\* {domain: "a.co", publisherAccountID: "1", accountType: "DIRECT"}
FieldPlain == Field(Some(DomainA), Some(<<"1">>), Some(DIRECT), None, None)
\* all five properties: "b.io", "p q", "RESELLER", "c4", "n"
FieldFull == Field(Some(DomainB), Some(<<"p"," ","q">>), Some(RESELLER),
                   Some(<<"c","4">>), Some(<<"n">>))
\* certificateAuthorityID: "" and comment: ""
FieldEmptyOptionals == Field(Some(DomainB), Some(<<"2">>), Some(DIRECT),
                             Some(<<>>), Some(<<>>))
\* domain "-a.co", publisherAccountID "", accountType "OWNER": all three wrong
FieldAllWrong == Field(Some(<<"-","a",".","c","o">>), Some(<<>>),
                       Some(<<"O","W","N","E","R">>), None, None)
\* no publisherAccountID, and accountType "OWNER"
FieldNoPublisher == Field(Some(DomainA), None, Some(<<"O","W","N","E","R">>), None, None)
\* accountType "OWNER"
FieldWrongType == Field(Some(DomainA), Some(<<"1">>), Some(<<"O","W","N","E","R">>),
                        None, None)
\* accountType "direct"
FieldLowerType == Field(Some(DomainA), Some(<<"1">>), Some(<<"d","i","r","e","c","t">>),
                        None, None)
\* no accountType
FieldNoType == Field(Some(DomainA), Some(<<"1">>), None, None, None)

GenFields == {FieldPlain, FieldFull, FieldEmptyOptionals, FieldAllWrong,
              FieldNoPublisher, FieldWrongType, FieldLowerType, FieldNoType}

Entry(k, kind, vals) == [key |-> k, kind |-> kind, vals |-> vals]

\* A: "x y"
VarString == Entry(<<"A">>, "string", << <<"x"," ","y">> >>)
\* B: ["1", "2"]
VarArray == Entry(<<"B">>, "array", << <<"1">>, <<"2">> >>)
\* C: []
VarEmptyArray == Entry(<<"C">>, "array", <<>>)
\* D: 7
VarNumber == Entry(<<"D">>, "other", <<>>)

GenVars == {VarString, VarArray, VarEmptyArray, VarNumber}

DistinctKeys(vs) == \A i, j \in 1..Len(vs) : vs[i].key = vs[j].key => i = j

\* The header and footer pairs: none and none, "" and "f", "h\n\ng" and
\* "f\ne", "h" and none.
GenBlocks == {<<None, None>>,
              <<Some(<<>>), Some(<<"f">>)>>,
              <<Some(<<"h","\n","\n","g">>), Some(<<"f","\n","e">>)>>,
              <<Some(<<"h">>), None>>}

\* The same and a header with a bare carriage return: "x\ra.co,1,DIRECT"
RoundTripBlocks ==
    GenBlocks \cup {<<Some(<<"x", "\r">> \o DomainA \o <<",", "1", ",">> \o DIRECT), None>>}

GenManifests ==
    {[fields |-> fs, variables |-> vs] :
        fs \in SeqsUpTo(GenFields, MaxFields),
        vs \in {v \in SeqsUpTo(GenVars, MaxVars) : DistinctKeys(v)}}

\* Well-formed records without comments.
\* publisherAccountID "5%"
FieldPercent == Field(Some(DomainA), Some(<<"5","%">>), Some(DIRECT), None, None)
\* publisherAccountID "p%20q"
FieldEscape == Field(Some(DomainB), Some(<<"p","%","2","0","q">>), Some(RESELLER),
                     Some(<<"c","4">>), None)
\* "b.io", "p q", "RESELLER", "c4"
FieldSpaced == Field(Some(DomainB), Some(<<"p"," ","q">>), Some(RESELLER),
                     Some(<<"c","4">>), None)

WellFormedFields == {FieldPlain, FieldSpaced, FieldPercent, FieldEscape}

\* E: "5%"
VarPercent == Entry(<<"E">>, "string", << <<"5","%">> >>)
\* F: "a=b"
VarEquals == Entry(<<"F">>, "string", << <<"a","=","b">> >>)

ScalarVars == {VarString, VarPercent, VarEquals}

WellFormedManifests ==
    {[fields |-> fs, variables |-> vs] :
        fs \in SeqsUpTo(WellFormedFields, MaxFields),
        vs \in {v \in SeqsUpTo(ScalarVars, MaxVars) : DistinctKeys(v)}}

----------------------------------------------------------------------------
(* The calls *)

Init ==
    /\ pc = "idle"
    /\ text = <<>>
    /\ parseOptions = "omitted"
    /\ invalidLineAction = "filter"
    /\ lines = <<>>
    /\ idx = 0
    /\ variables = <<>>
    /\ dataFields = <<>>
    /\ error = NoError
    /\ manifest = [fields |-> <<>>, variables |-> <<>>]
    /\ header = None
    /\ footer = None
    /\ genLines = <<>>
    /\ output = <<>>
    /\ srcLines = <<>>
    /\ seps = <<>>

GenUnchanged == UNCHANGED <<manifest, header, footer, genLines, output>>

\* parseAdsTxt up to the forEach: the options, their check, the split.
Enter(t, opt) ==
    /\ text' = t
    /\ parseOptions' = opt
    /\ invalidLineAction' = OptionOf(opt)
    /\ idx' = 0
    /\ variables' = <<>>
    /\ dataFields' = <<>>
    /\ IF ValidOption(OptionOf(opt))
       THEN /\ lines' = NEW_LINE(t)
            /\ error' = NoError
            /\ pc' = "parsing"
       ELSE /\ lines' = <<>>
            /\ error' = Thrown("OptionError", <<>>)
            /\ pc' = "threw"

\* A call of parseAdsTxt on a text of line-feed separated lines.
ParseStart ==
    /\ pc = "idle"
    /\ \E ls \in SeqsUpTo(ParseLines, MaxLines), opt \in OptionValues :
          /\ srcLines' = ls
          /\ seps' = [i \in 1..(Len(ls) - 1) |-> LF]
          /\ Enter(join(ls, LF), opt)
    /\ GenUnchanged

\* A call of parseAdsTxt on a text whose lines are separated each in its way.
ParseStartSeparators ==
    /\ pc = "idle"
    /\ \E ls \in SeqsUpTo(SepLines, MaxSepLines) \ {<<>>}, opt \in {"filter", "throw"} :
          \E ss \in [1..(Len(ls) - 1) -> Separators] :
              /\ srcLines' = ls
              /\ seps' = ss
              /\ Enter(Assemble(ls, ss), opt)
    /\ GenUnchanged

\* One turn of lines.forEach.
ParseLine ==
    /\ pc = "parsing"
    /\ idx < Len(lines)
    /\ LET st == ForEachLine([variables |-> variables, fields |-> dataFields,
                              error |-> NoError],
                             lines[idx + 1], invalidLineAction)
       IN  IF st.error.kind = "none"
           THEN /\ variables' = st.variables
                /\ dataFields' = st.fields
                /\ idx' = idx + 1
                /\ UNCHANGED <<pc, error>>
           ELSE /\ pc' = "threw"
                /\ error' = st.error
                /\ UNCHANGED <<variables, dataFields, idx>>
    /\ UNCHANGED <<text, parseOptions, invalidLineAction, lines, srcLines, seps>>
    /\ GenUnchanged

\* return { variables, fields: dataFields }
ParseReturn ==
    /\ pc = "parsing"
    /\ idx = Len(lines)
    /\ pc' = "returned"
    /\ UNCHANGED <<text, parseOptions, invalidLineAction, lines, idx, variables,
                   dataFields, error, srcLines, seps>>
    /\ GenUnchanged

ParseUnchanged ==
    UNCHANGED <<text, parseOptions, invalidLineAction, lines, idx, variables,
                dataFields, srcLines, seps>>

\* generateAdsTxt as one call: the text returned, or the exception.
Call(m, h, f) ==
    LET r == generateAdsTxt(m, h, f)
    IN  /\ manifest' = m
        /\ header' = h
        /\ footer' = f
        /\ genLines' = r.lines
        /\ output' = r.text
        /\ error' = r.error
        /\ pc' = IF r.ok THEN "generated" ELSE "failed"

\* A call of generateAdsTxt on any manifest.
Generate ==
    /\ pc = "idle"
    /\ \E m \in GenManifests, b \in GenBlocks : Call(m, b[1], b[2])
    /\ ParseUnchanged

\* A call of generateAdsTxt on a manifest of well-formed records without
\* comments and of scalar variables.
GenerateWellFormed ==
    /\ pc = "idle"
    /\ \E m \in WellFormedManifests, b \in RoundTripBlocks : Call(m, b[1], b[2])
    /\ ParseUnchanged

\* parseAdsTxt called on the text generateAdsTxt returned.
ParseGenerated ==
    /\ pc = "generated"
    /\ \E opt \in {"filter", "throw"} :
          /\ srcLines' = genLines
          /\ seps' = [i \in 1..(Len(genLines) - 1) |-> LF]
          /\ Enter(output, opt)
    /\ GenUnchanged

Next == ParseStart \/ ParseLine \/ ParseReturn

Spec == Init /\ [][Next]_vars

NextSeparators == ParseStartSeparators \/ ParseLine \/ ParseReturn

SpecSeparators == Init /\ [][NextSeparators]_vars

NextGenerate == Generate

SpecGenerate == Init /\ [][NextGenerate]_vars

NextRoundTrip == GenerateWellFormed \/ ParseGenerated \/ ParseLine \/ ParseReturn

SpecRoundTrip == Init /\ [][NextRoundTrip]_vars

----------------------------------------------------------------------------
(* The parser's claims *)

Finished == pc \in {"returned", "threw"}

InParse == pc \in {"parsing", "returned", "threw"}

\* The lines the forEach has been through.
ProcessedLines == SubSeq(lines, 1, idx)

\* A line that is neither blank, nor a comment, nor a variable assignment,
\* nor a data record.
IsInvalidLine(l) ==
    ~EMPTY_LINE(l) /\ ~isComment(l) /\ ~isVariableAssignment(l) /\ ~isDataField(l)

IsRecordLine(l) ==
    ~EMPTY_LINE(l) /\ ~isComment(l) /\ ~isVariableAssignment(l) /\ isDataField(l)

\* C1: under invalidLineAction "filter", given or defaulted, parseAdsTxt
\* never throws, whatever the text.
C1_FilterNeverThrows ==
    parseOptions \in {"omitted", "filter"} => pc # "threw"

\* C2: under invalidLineAction "throw", a text with an invalid line ends in a
\* "Failed parsing" error that carries the first such line, and in no manifest.
C2_ThrowReportsInvalidLine ==
    (Finished /\ parseOptions = "throw"
              /\ \E i \in 1..Len(lines) : IsInvalidLine(lines[i]))
    => /\ pc = "threw"
       /\ error.kind = "ParseError"
       /\ LET first == Min({i \in 1..Len(lines) : IsInvalidLine(lines[i])})
          IN  error.line = lines[first]

\* C3: every record of the manifest has accountType exactly DIRECT or
\* RESELLER, whatever the letter case of the third field of its line.
C3_AccountTypeCanonical ==
    \A i \in 1..Len(dataFields) :
        dataFields[i].accountType \in {Some(DIRECT), Some(RESELLER)}

\* The decoded values assigned to name in the lines processed, in order.
ValuesOf(name) ==
    LET Assigns(l) == VARIABLE_DEFINITION(l).matched /\ VARIABLE_DEFINITION(l).name = name
        ls == SelectSeq(ProcessedLines, Assigns)
    IN  [i \in 1..Len(ls) |-> decodeURIComponent(VARIABLE_DEFINITION(ls[i]).value).s]

\* The names assigned anywhere in the text, the keys held, and one more.
NamesOfInterest ==
    {VARIABLE_DEFINITION(lines[i]).name : i \in 1..Len(lines)}
    \cup {variables[i].key : i \in 1..Len(variables)}
    \cup {<<"z">>}

\* C5: after any prefix of the lines, a name assigned k times holds the one
\* decoded string when k = 1, the k decoded values in source order when
\* k >= 2, and is absent when k = 0; no value is an empty sequence.
C5_VariableAccumulation ==
    InParse =>
        /\ \A i, j \in 1..Len(variables) : variables[i].key = variables[j].key => i = j
        /\ \A i \in 1..Len(variables) : Len(variables[i].vals) >= 1
        /\ \A name \in NamesOfInterest :
              LET vals == ValuesOf(name)
                  k == Len(vals)
              IN  /\ k = 0 => ~HasKey(variables, name)
                  /\ k = 1 => /\ HasKey(variables, name)
                              /\ variables[KeyIndex(variables, name)].kind = "string"
                              /\ variables[KeyIndex(variables, name)].vals = vals
                  /\ k >= 2 => /\ HasKey(variables, name)
                               /\ variables[KeyIndex(variables, name)].kind = "array"
                               /\ variables[KeyIndex(variables, name)].vals = vals

\* A name assigned three times, by values that differ, next to one assigned once.
C5_Witness ==
    /\ pc = "returned"
    /\ \E i \in 1..Len(variables) :
          /\ variables[i].kind = "array"
          /\ Len(variables[i].vals) = 3
          /\ variables[i].vals[1] # variables[i].vals[2]

\* The data-record lines among the lines processed, in order.
RecordLines == SelectSeq(ProcessedLines, IsRecordLine)

\* Every character after the first "#" of a line.
AfterFirstHash(l) ==
    LET hs == {i \in 1..Len(l) : l[i] = "#"}
    IN  IF hs = {} THEN <<>> ELSE SubSeq(l, Min(hs) + 1, Len(l))

\* C7: a record carries a comment exactly when the text after the first "#"
\* of its line, trimmed, is not empty; the comment is that trimmed text,
\* further "#" included and not percent-decoded; else the key is left out.
C7_CommentCapture ==
    InParse =>
        LET rl == RecordLines
        IN  /\ Len(dataFields) = Len(rl)
            /\ \A k \in 1..Len(dataFields) :
                  LET c == trim(AfterFirstHash(rl[k]))
                  IN  /\ dataFields[k].comment.has <=> Len(c) > 0
                      /\ dataFields[k].comment = IF Len(c) > 0 THEN Some(c) ELSE None

\* A record whose comment holds a second "#", one whose comment is an
\* undecoded escape, and one whose line ends in a bare "#".
C7_Witness ==
    /\ pc = "returned"
    /\ \E i, j, k \in 1..Len(dataFields) :
          /\ dataFields[i].comment.has /\ IsIn("#", dataFields[i].comment.s)
          /\ dataFields[j].comment.has /\ IsIn("%", dataFields[j].comment.s)
          /\ ~dataFields[k].comment.has /\ IsIn("#", RecordLines[k])

----------------------------------------------------------------------------
(* The separators' claim *)

\* C6: whichever of "\n", "\r\n" and "\r" stands between each two adjacent
\* lines, parseAdsTxt ends as it does on the same lines joined by "\n": the
\* same manifest, or the same error.
C6_SeparatorsUniform ==
    Finished =>
        LET ref == parseAdsTxt(join(srcLines, LF), parseOptions)
        IN  /\ (pc = "returned") <=> (ref.error.kind = "none")
            /\ error = ref.error
            /\ variables = ref.variables
            /\ dataFields = ref.fields

\* Three records returned from a text that mixes "\r" and "\r\n".
C6_Witness ==
    /\ pc = "returned"
    /\ Len(dataFields) = 3
    /\ {seps[i] : i \in 1..Len(seps)} = {CR, CRLF}

----------------------------------------------------------------------------
(* The generator's claims *)

Generated == pc \in {"generated", "failed"}

\* The first check of the record generator that a record fails, the account
\* type compared with the enumerated values as they are written.
FirstFailure(f) ==
    IF ~isDomainName(f.domain.s) THEN "InvalidDomain"
    ELSE IF ~f.publisherAccountID.has \/ f.publisherAccountID.s = <<>>
    THEN "MissingPublisherID"
    ELSE IF f.accountType \notin {Some(DIRECT), Some(RESELLER)} THEN "InvalidAccountType"
    ELSE "none"

\* The errors that report a failed check; the account type check on a
\* record without accountType ends in a TypeError.
ErrorsOf(failure) ==
    IF failure = "InvalidAccountType" THEN {"InvalidAccountType", "TypeError"}
    ELSE {failure}

InvalidRecords == {i \in 1..Len(manifest.fields) : FirstFailure(manifest.fields[i]) # "none"}

\* C8: a manifest with a record whose domain is ill-formed, whose
\* publisherAccountID is empty or missing, or whose accountType is not an
\* enumerated value, makes generateAdsTxt fail without any text, with the
\* error of the first failing check of the first such record.
C8_InvalidRecordFails ==
    (Generated /\ InvalidRecords # {})
    => /\ pc = "failed"
       /\ output = <<>>
       /\ error.kind \in ErrorsOf(FirstFailure(manifest.fields[Min(InvalidRecords)]))

\* domain, publisherAccountID and accountType joined by ", ", then the
\* certificate authority ID and the comment when they are not empty.
ExpectedRecordLine(f) ==
    join(<<f.domain.s, f.publisherAccountID.s, f.accountType.s>>
         \o (IF f.certificateAuthorityID \in {None, Some(<<>>)}
             THEN <<>> ELSE <<f.certificateAuthorityID.s>>),
         <<",", " ">>)
    \o (IF f.comment \in {None, Some(<<>>)} THEN <<>> ELSE <<" ", "#", " ">> \o f.comment.s)

\* C10: the line generated for a valid record is domain, publisherAccountID
\* and accountType joined by comma and space, then ", " and the certificate
\* authority ID exactly when it is present and not empty, then " # " and the
\* comment exactly when it is present and not empty, and nothing else.
C10_RecordLineFormat ==
    pc = "generated" =>
        \A i \in 1..Len(manifest.fields) :
            genLines[Len(CommentBlock(header)) + i] = ExpectedRecordLine(manifest.fields[i])

\* A record with every property next to one whose optional ones are empty.
C10_Witness ==
    /\ pc = "generated"
    /\ \E i, j \in 1..Len(manifest.fields) :
          /\ manifest.fields[i] = FieldFull
          /\ manifest.fields[j] = FieldEmptyOptionals

\* The lines of a header or footer, each behind "# ".
PrefixedLines(block) ==
    IF block \in {None, Some(<<>>)} THEN <<>>
    ELSE [i \in 1..Len(split(block.s, "\n")) |-> <<"#", " ">> \o split(block.s, "\n")[i]]

\* One KEY=value line per element of a sequence, one for a scalar.
RECURSIVE LinePerElement(_)
LinePerElement(vs) ==
    IF Len(vs) = 0 THEN <<>>
    ELSE [i \in 1..Len(vs[1].vals) |-> vs[1].key \o <<"=">> \o vs[1].vals[i]]
         \o LinePerElement(Tail(vs))

\* Header lines, record lines, the given variable lines, footer lines,
\* joined by "\n".
Layout(variableLines) ==
    join(PrefixedLines(header)
         \o [i \in 1..Len(manifest.fields) |-> ExpectedRecordLine(manifest.fields[i])]
         \o variableLines
         \o PrefixedLines(footer), LF)

HasOtherValue == \E i \in 1..Len(manifest.variables) : manifest.variables[i].kind = "other"

\* C9: the output is the header lines, one line per record, the variable
\* lines in key order with one line for a scalar and one per element of a
\* sequence, and the footer lines, joined by "\n" with no separator before
\* or after; a value that is neither a string nor a sequence is a
\* generation error.
C9_Layout ==
    /\ pc = "generated" => output = Layout(LinePerElement(manifest.variables))
    /\ (Generated /\ HasOtherValue) => pc = "failed"

----------------------------------------------------------------------------
(* The round trip's claim *)

\* C4: a manifest of well-formed records without comments and of scalar
\* variables, generated and parsed again, comes back with the same records
\* in the same order and the same variables.
C4_RoundTrip ==
    (Finished /\ header = None /\ footer = None)
    => /\ pc = "returned"
       /\ dataFields = manifest.fields
       /\ variables = manifest.variables

----------------------------------------------------------------------------
(* The parser's claims, continued *)

\* C11: an invalidLineAction other than "filter" and "throw" ends the call in
\* the configuration error before any line is processed, whatever the text,
\* and never in a parse or decoding error; an omitted option is "filter".
C11_OptionError ==
    /\ (pc # "idle" /\ parseOptions \notin {"omitted", "filter", "throw"})
       => /\ pc = "threw"
          /\ error.kind = "OptionError"
          /\ idx = 0 /\ lines = <<>>
          /\ variables = <<>> /\ dataFields = <<>>
    /\ parseOptions = "omitted" => invalidLineAction = "filter"
    /\ parseOptions \in {"omitted", "filter", "throw"} => error.kind # "OptionError"

\* The option "ignore" on a text with a record, a malformed escape and an
\* invalid line.
C11_Witness ==
    /\ pc = "threw"
    /\ parseOptions = "ignore"
    /\ srcLines = <<LineRec1, LineVarBad, LineWrongType>>

\* C12: every record of a returned manifest has a domain, a
\* publisherAccountID and an accountType that are present and not empty.
C12_RequiredFieldsNonEmpty ==
    pc = "returned" =>
        \A i \in 1..Len(dataFields) :
            /\ dataFields[i].domain.has /\ Len(dataFields[i].domain.s) > 0
            /\ dataFields[i].publisherAccountID.has
            /\ Len(dataFields[i].publisherAccountID.s) > 0
            /\ dataFields[i].accountType.has /\ Len(dataFields[i].accountType.s) > 0

\* Every character before the first "#" of a line.
BeforeFirstHash(l) ==
    LET hs == {i \in 1..Len(l) : l[i] = "#"}
    IN  IF hs = {} THEN l ELSE SubSeq(l, 1, Min(hs) - 1)

\* The comma-separated pieces of the comment-stripped line.
Pieces(l) == split(BeforeFirstHash(l), ",")

\* The n-th of the pieces, trimmed and then percent-decoded; no value when
\* there are fewer pieces.
Piece(ps, n) ==
    IF n > Len(ps) THEN None ELSE Some(decodeURIComponent(trim(ps[n])).s)

\* C14: after any prefix of the lines, fields holds one record per line of
\* the prefix classified as a data record, in source order, whose domain,
\* publisherAccountID, accountType and certificateAuthorityID are the first
\* four pieces of the comment-stripped line, trimmed and then decoded, the
\* last without value when there is no fourth piece; a line matching the
\* variable pattern is no record line (RecordLines) and adds no record.
C14_RecordsInOrder ==
    InParse =>
        LET rl == RecordLines
        IN  /\ Len(dataFields) = Len(rl)
            /\ \A k \in 1..Len(dataFields) :
                  LET ps == Pieces(rl[k])
                  IN  /\ dataFields[k].domain = Piece(ps, 1)
                      /\ dataFields[k].publisherAccountID = Piece(ps, 2)
                      /\ dataFields[k].accountType = Piece(ps, 3)
                      /\ dataFields[k].certificateAuthorityID = Piece(ps, 4)

\* A record with a fourth piece and an escape, one without a fourth piece,
\* and a variable line whose value reads as a record.
C14_Witness ==
    /\ pc = "returned"
    /\ lines = <<LineRec2, LineVarB, LineRec1>>
    /\ Len(dataFields) = 2
    /\ dataFields[1].certificateAuthorityID = Some(<<"c","4">>)
    /\ dataFields[1].publisherAccountID = Some(<<"p"," ","q">>)
    /\ dataFields[2].certificateAuthorityID = None

----------------------------------------------------------------------------
(* The generator's claims, continued *)

\* The records that pass the domain and publisherAccountID checks and whose
\* accountType is not exactly DIRECT or RESELLER, with no invalid record
\* before them.
WrongTypeFirst ==
    {i \in InvalidRecords :
        i = Min(InvalidRecords) /\ FirstFailure(manifest.fields[i]) = "InvalidAccountType"}

\* C13: the account type is checked at generation time as it is written: a
\* record whose accountType is not exactly DIRECT or RESELLER, or is
\* missing, makes generateAdsTxt fail with the invalid-account-type error
\* that names the value, and no line is written for it.
C13_TypeCheckedAsWritten ==
    (Generated /\ WrongTypeFirst # {})
    => /\ pc = "failed"
       /\ output = <<>>
       /\ error = Thrown("InvalidAccountType",
                         manifest.fields[Min(InvalidRecords)].accountType.s)

----------------------------------------------------------------------------
(* The round trip's claims, continued *)

\* C15: the text generated with a header and a footer parses to what the
\* text generated without them parses to: the same fields and variables,
\* and no failure that the bare text does not have.
C15_HeaderFooterInert ==
    (Finished /\ pc # "idle")
    => LET bare == parseAdsTxt(generateAdsTxt(manifest, None, None).text, parseOptions)
       IN  /\ (pc = "returned") <=> (bare.error.kind = "none")
           /\ error = bare.error
           /\ dataFields = bare.fields
           /\ variables = bare.variables

====
